---- MODULE Spec2Model ----
(***************************************************************************)
(* A model of the pyloid-js core: the readiness gate (PyloidReadyManager), *)
(* the typed bridge surface (BaseAPI) and the dynamic dispatcher (IPC),    *)
(* the JSON-RPC client (RpcClient) and the session-augmented fetch.        *)
(*                                                                         *)
(* JavaScript scheduling is modelled as follows.  Synchronous code of the  *)
(* application (issuing a call, invoking setReady()) may run at any point  *)
(* between two microtasks.  Timer callbacks, the host's injection of the   *)
(* bridge and the settlement of host or HTTP promises are macrotasks: they *)
(* run only when no continuation is runnable.                              *)
(***************************************************************************)
EXTENDS Integers, Sequences, FiniteSets, TLC

VARIABLES
  hasWindow,        \* typeof window !== 'undefined'
  bridge,           \* window.__PYLOID__ is present
  ipcInjected,      \* window.ipc is present
  ready,            \* PyloidReadyManager.ready
  readyPromise,     \* state of PyloidReadyManager.readyPromise
  readyError,       \* rejection reason of readyPromise
  pollingInterval,  \* PyloidReadyManager.pollingInterval (Null or a handle)
  pollingTimeout,   \* PyloidReadyManager.pollingTimeout (Null or a handle)
  timers,           \* timer handles the browser still holds armed
  readyLogs,        \* number of 'Pyloid is ready.' lines written by setReady
  calls,            \* every ensureReady(fn) activation, in issue order
  waiters,          \* activations awaiting the pending readyPromise, in order
  microtasks,       \* continuations of settled awaits, in queue order
  invocations,      \* host functions actually invoked, in order
  inits,            \* activations of initializeEndpoint/ServerUrl/WindowId
  endpoint,         \* RpcClient.endpoint
  endpointPromise,  \* RpcClient.endpointPromise (NoPromise or an activation)
  rpcWindowId,      \* RpcClient.windowId
  rpcCalls,         \* activations of RpcClient.call, in issue order
  serverUrl,        \* fetch module: serverUrl
  serverUrlPromise, \* fetch module: serverUrlPromise
  windowId,         \* fetch module: windowId
  windowIdPromise,  \* fetch module: windowIdPromise
  fetchCalls,       \* activations of fetch, in issue order
  listeners,        \* EventAPI._listeners: the callbacks stored per event name
  eventHandlerOf,   \* callback._eventHandler (0: the property is not set)
  handlers,         \* every eventHandler closure listen() created, in order
  attached,         \* the closures attached to the document, in order
  revoked,          \* closures created by listen(e, ...) before an unlisten(e)
  dispatches,       \* events the host dispatched on the document, in order
  deliveries,       \* invocations of callbacks, in order
  lastOp,           \* the EventAPI method invoked last
  accesses          \* uses of the ipc proxy by the application, in order

gateVars == <<ready, readyPromise, readyError, pollingInterval, pollingTimeout,
              timers, readyLogs>>
envVars  == <<hasWindow, bridge, ipcInjected>>
callVars == <<calls, waiters, microtasks, invocations>>
rpcVars  == <<endpoint, endpointPromise, rpcWindowId, rpcCalls>>
fetchVars == <<serverUrl, serverUrlPromise, windowId, windowIdPromise, fetchCalls>>
chanVars == <<inits, rpcVars, fetchVars>>
eventVars == <<listeners, eventHandlerOf, handlers, attached, revoked,
               dispatches, deliveries, lastOp>>
vars     == <<envVars, gateVars, callVars, chanVars, eventVars, accesses>>

Null == "null"

\* Owner of a call the application made itself; other calls belong to the
\* activation of inits that made them.
User == 0

\* endpointPromise / serverUrlPromise / windowIdPromise === null.
NoPromise == 0

\* A string-valued field that holds null (strings are sequences of characters).
NullStr == <<"null">>

\* Bounds of the model.
MaxCalls == 2
MaxRpcCalls == 2
MaxFetchCalls == 2
MaxListens == 2
MaxDispatches == 2

----------------------------------------------------------------------------
(* The readiness gate *)

\* The gate as a record, so that its methods are functions of the gate.
Gate ==
  [ready |-> ready, promise |-> readyPromise, error |-> readyError,
   interval |-> pollingInterval, timeout |-> pollingTimeout,
   timers |-> timers, logs |-> readyLogs]

\* Promise settlement: the first resolve or reject wins, later ones are no-ops.
resolveReadyPromiseAgain(g) == [g EXCEPT !.promise = "resolved"]

resolveReadyPromise(g) ==
  IF g.promise = "pending" THEN [g EXCEPT !.promise = "resolved"] ELSE g

rejectReadyPromise(g, reason) ==
  IF g.promise = "pending"
    THEN [g EXCEPT !.promise = "rejected", !.error = reason]
    ELSE g

stopPollingKeepsTimeout(g) ==
  IF g.interval # Null
    THEN [g EXCEPT !.timers = @ \ {g.interval}, !.interval = Null]
    ELSE g

stopPolling(g) ==
  LET g1 == IF g.interval # Null
              THEN [g EXCEPT !.timers = @ \ {g.interval}, !.interval = Null]
              ELSE g
  IN IF g1.timeout # Null
       THEN [g1 EXCEPT !.timers = @ \ {g1.timeout}, !.timeout = Null]
       ELSE g1

setReadyUnguarded(g) ==
  resolveReadyPromise(
    [stopPolling([g EXCEPT !.ready = TRUE]) EXCEPT !.logs = @ + 1])

setReadyToggles(g) ==
  IF ~g.ready
    THEN resolveReadyPromise(
           [stopPolling([g EXCEPT !.ready = TRUE]) EXCEPT !.logs = @ + 1])
    ELSE [g EXCEPT !.ready = FALSE]

setReadyKeepsPolling(g) ==
  IF ~g.ready
    THEN resolveReadyPromise([g EXCEPT !.ready = TRUE, !.logs = @ + 1])
    ELSE g

setReady(g) ==
  IF ~g.ready
    THEN resolveReadyPromise(
           [stopPolling([g EXCEPT !.ready = TRUE]) EXCEPT !.logs = @ + 1])
    ELSE g

isReady(g) == g.ready

whenReady(g) == g.promise

\* The gate before the constructor's promise executor has run.
NewGate ==
  [ready |-> FALSE, promise |-> "pending", error |-> "none",
   interval |-> Null, timeout |-> Null, timers |-> {}, logs |-> 0]

ConstructorAlwaysPolls(w, b) ==
  IF w THEN [NewGate EXCEPT !.interval = "interval", !.timeout = "timeout",
                            !.timers = {"interval", "timeout"}]
  ELSE rejectReadyPromise(NewGate, "nowindow")

\* new PyloidReadyManager() in an environment (w: window exists, b: bridge present).
Constructor(w, b) ==
  IF w /\ b THEN setReady(NewGate)
  ELSE IF w THEN [NewGate EXCEPT !.interval = "interval", !.timeout = "timeout",
                                 !.timers = {"interval", "timeout"}]
  ELSE rejectReadyPromise(NewGate, "nowindow")

\* The callback given to window.setInterval.
pollCallback(g, b) == IF b THEN setReady(stopPolling(g)) ELSE g

\* The callback given to window.setTimeout (the browser disarms a fired timeout).
timeoutCallbackKeepsPolling(g) ==
  LET g0 == [g EXCEPT !.timers = @ \ {"timeout"}]
  IN IF ~g0.ready THEN rejectReadyPromise(g0, "timeout") ELSE g0

timeoutCallbackNoReject(g) ==
  LET g0 == [g EXCEPT !.timers = @ \ {"timeout"}]
  IN IF ~g0.ready THEN stopPolling(g0) ELSE g0

timeoutCallback(g) ==
  LET g0 == [g EXCEPT !.timers = @ \ {"timeout"}]
  IN IF ~g0.ready THEN rejectReadyPromise(stopPolling(g0), "timeout") ELSE g0

----------------------------------------------------------------------------
(* JavaScript values and strings *)

\* A string is a sequence of tokens; "." is the token String.split('.') cuts at.
RECURSIVE SplitFrom(_, _, _)
SplitFrom(s, i, cur) ==
  IF i > Len(s) THEN <<cur>>
  ELSE IF s[i] = "." THEN <<cur>> \o SplitFrom(s, i + 1, <<>>)
  ELSE SplitFrom(s, i + 1, Append(cur, s[i]))

Split(s) == SplitFrom(s, 1, <<>>)

Prefix(parts, n) == [k \in 1..n |-> parts[k]]

Undefined == [t |-> "undefined"]
Fn(id)    == [t |-> "function", id |-> id]
Num       == [t |-> "number"]
Obj(f)    == [t |-> "object", f |-> f]

\* What a value that is not a plain object inherits: a number has the methods
\* of Number.prototype, a function those of Function.prototype.
Inherited(v) ==
  IF v.t = "number"
    THEN <<"toFixed">> :> Fn(<<"Number", ".", "prototype", ".", "toFixed">>)
  ELSE IF v.t = "function"
    THEN <<"call">> :> Fn(<<"Function", ".", "prototype", ".", "call">>)
  ELSE [k \in {} |-> Undefined]

\* The value of v[key] for a value that can be indexed.
GetProp(v, key) ==
  IF v.t = "object" /\ key \in DOMAIN v.f THEN v.f[key]
  ELSE IF key \in DOMAIN Inherited(v) THEN Inherited(v)[key]
  ELSE Undefined

Truthy(v) == v.t # "undefined"

\* The namespace object the host injects as window.ipc.
IpcObject ==
  Obj((<<"main">> :> Obj((<<"getVersion">> :> Fn(<<"main", ".", "getVersion">>))
                         @@ (<<"version">> :> Num)))
      @@ (<<"ping">> :> Fn(<<"ping">>)))

WindowIpc(ip) == IF ip THEN IpcObject ELSE Undefined

----------------------------------------------------------------------------
(* BaseAPI and IPC: ensureReady(fn) *)

\* The environment a synchronous piece of code observes.
Env ==
  [w |-> hasWindow, b |-> bridge, ip |-> ipcInjected, ready |-> ready,
   signal |-> whenReady(Gate)]

NewCall(api, path, arg, owner) ==
  [api |-> api, path |-> path, arg |-> arg, owner |-> owner,
   pc |-> "start", error |-> "none", errPath |-> <<>>, result |-> <<>>,
   waited |-> FALSE, signalAtAwait |-> "none", fn |-> <<>>, fnArg |-> "",
   dispatched |-> FALSE, readyAtDispatch |-> FALSE, bridgeAtDispatch |-> FALSE,
   ipcAtDispatch |-> FALSE, readyAtIssue |-> isReady(Gate)]

\* The navigation loop of callIPC: i is the 1-based index of the segment about
\* to be read from cur.
RECURSIVE Navigate(_, _, _)
Navigate(cur, parts, i) ==
  IF i > Len(parts) - 1 THEN [ok |-> TRUE, cur |-> cur, at |-> 0]
  ELSE IF Truthy(cur) /\ cur.t = "object"
    THEN Navigate(GetProp(cur, parts[i]), parts, i + 1)
    ELSE [ok |-> FALSE, cur |-> cur, at |-> i]

\* The function handed to ensureReady by callIPC.
callIPCBody(c, e) ==
  LET parts == Split(c.path)
      nav   == Navigate(WindowIpc(e.ip), parts, 1)
      methodName == parts[Len(parts)]
  IN IF ~nav.ok
       THEN [c EXCEPT !.pc = "failed", !.error = "notobject",
                      !.errPath = Prefix(parts, nav.at)]
     ELSE IF ~Truthy(nav.cur) \/ GetProp(nav.cur, methodName).t # "function"
       THEN [c EXCEPT !.pc = "failed", !.error = "notfunction",
                      !.errPath = parts]
     ELSE [c EXCEPT !.pc = "hostPending",
                    !.fn = GetProp(nav.cur, methodName).id, !.fnArg = c.arg]

\* The function handed to ensureReady by a typed method:
\* () => window.__PYLOID__.name(args).
typedBody(c, e) ==
  IF e.b THEN [c EXCEPT !.pc = "hostPending", !.fn = c.path, !.fnArg = c.arg]
         ELSE [c EXCEPT !.pc = "failed", !.error = "typeerror"]

\* fn(): the call leaves the SDK for the bridge.
Dispatch(c, e) ==
  LET d == [c EXCEPT !.dispatched = TRUE, !.readyAtDispatch = e.ready,
                     !.bridgeAtDispatch = e.b, !.ipcAtDispatch = e.ip]
  IN IF c.api = "ipc" THEN callIPCBody(d, e) ELSE typedBody(d, e)

\* ensureReady up to its first suspension.
ensureReadyNoWait(c, e) ==
  IF ~e.w THEN [c EXCEPT !.pc = "failed", !.error = "ssr"]
  ELSE Dispatch(c, e)

ensureReadyNoWindowCheck(c, e) ==
  IF ~e.ready
    THEN [c EXCEPT !.pc = "awaitReady", !.waited = TRUE,
                   !.signalAtAwait = e.signal]
  ELSE Dispatch(c, e)

ensureReady(c, e) ==
  IF ~e.w THEN [c EXCEPT !.pc = "failed", !.error = "ssr"]
  ELSE IF ~e.ready
    THEN [c EXCEPT !.pc = "awaitReady", !.waited = TRUE,
                   !.signalAtAwait = e.signal]
  ELSE Dispatch(c, e)

\* ensureReady after 'await pyloidReadyManager.whenReady()' has settled.
ensureReadyResumed(c, e, promise, reason) ==
  IF promise = "resolved" THEN Dispatch(c, e)
  ELSE [c EXCEPT !.pc = "failed", !.error = reason]

Invoked(c) == c.pc = "hostPending"

InvocationOf(i, c, e) ==
  [call |-> i, api |-> c.api, fn |-> c.fn, arg |-> c.fnArg,
   ready |-> e.ready, bridge |-> e.b]

----------------------------------------------------------------------------
(* Actions: the gate *)

\* Store a gate record; a promise that settles queues its waiters' continuations.
SetGate(g) ==
  /\ ready' = g.ready
  /\ readyPromise' = g.promise
  /\ readyError' = g.error
  /\ pollingInterval' = g.interval
  /\ pollingTimeout' = g.timeout
  /\ timers' = g.timers
  /\ readyLogs' = g.logs

SettleWaiters(g) ==
  IF readyPromise = "pending" /\ g.promise # "pending"
    THEN /\ microtasks' = microtasks \o waiters
         /\ waiters' = <<>>
    ELSE UNCHANGED <<microtasks, waiters>>

\* A continuation of the channels' promise chains is runnable.  These chains
\* hold no application code, so nothing of the application runs inside them.
InitRunnable(k) ==
  /\ inits[k].pc \in {"awaitUrl", "awaitWid"}
  /\ calls[inits[k].call].pc \in {"done", "failed"}

Settled(k) == inits[k].pc \in {"resolved", "rejected"}

RpcRunnable(j) == rpcCalls[j].pc = "awaitInit" /\ Settled(rpcCalls[j].awaits)

FetchRunnable(j) ==
  /\ fetchCalls[j].pc = "awaitInit"
  /\ \/ fetchCalls[j].url = "pending" /\ Settled(fetchCalls[j].awaitsUrl)
     \/ fetchCalls[j].wid = "pending" /\ Settled(fetchCalls[j].awaitsWid)

Urgent ==
  \/ \E k \in DOMAIN inits : InitRunnable(k)
  \/ \E j \in DOMAIN rpcCalls : RpcRunnable(j)
  \/ \E j \in DOMAIN fetchCalls : FetchRunnable(j)

\* No continuation is runnable: the event loop may take the next macrotask.
Quiescent == microtasks = <<>> /\ ~Urgent

\* The host injects window.__PYLOID__ into the page.
InjectBridge ==
  /\ Quiescent
  /\ hasWindow /\ ~bridge
  /\ bridge' = TRUE
  /\ UNCHANGED <<accesses, eventVars, hasWindow, ipcInjected, gateVars, callVars, chanVars>>

\* The host injects window.ipc into the page.
InjectIpc ==
  /\ Quiescent
  /\ hasWindow /\ ~ipcInjected
  /\ ipcInjected' = TRUE
  /\ UNCHANGED <<accesses, eventVars, hasWindow, bridge, gateVars, callVars, chanVars>>

\* The polling interval fires.
PollTick ==
  /\ Quiescent
  /\ "interval" \in timers
  /\ SetGate(pollCallback(Gate, bridge))
  /\ SettleWaiters(pollCallback(Gate, bridge))
  /\ UNCHANGED <<accesses, eventVars, envVars, calls, invocations, chanVars>>

\* The polling timeout fires.
TimeoutFire ==
  /\ Quiescent
  /\ "timeout" \in timers
  /\ SetGate(timeoutCallback(Gate))
  /\ SettleWaiters(timeoutCallback(Gate))
  /\ UNCHANGED <<accesses, eventVars, envVars, calls, invocations, chanVars>>

\* Application code invokes the public pyloidReadyManager.setReady().
SetReady ==
  /\ ~Urgent
  /\ SetGate(setReady(Gate))
  /\ SettleWaiters(setReady(Gate))
  /\ UNCHANGED <<accesses, eventVars, envVars, calls, invocations, chanVars>>

----------------------------------------------------------------------------
(* Actions: typed and dynamic calls *)

TypedNames == {<<"setTitle">>, <<"getTitle">>}
IpcPaths   == {<<"main", ".", "getVersion">>, <<"main", ".", "nonexistent">>,
               <<"main", ".", "version", ".", "toFixed">>,
               <<"main", ".", "version", ".", "x", ".", "y">>}
Args       == {"Hello", "Bye"}

UserCalls == {i \in DOMAIN calls : calls[i].owner = User}

\* The call-side state and the initialiser activations, as one value that
\* synchronous code transforms step by step.
CallState ==
  [calls |-> calls, invocations |-> invocations, waiters |-> waiters,
   microtasks |-> microtasks, inits |-> inits]

SetCallState(cs) ==
  /\ calls' = cs.calls
  /\ invocations' = cs.invocations
  /\ waiters' = cs.waiters
  /\ microtasks' = cs.microtasks
  /\ inits' = cs.inits

\* Record a started activation: it awaits the gate (a settled promise queues
\* the continuation at once), or it has reached the host function.
AddCall(cs, c) ==
  LET i == Len(cs.calls) + 1
      awaiting == c.pc = "awaitReady"
  IN [cs EXCEPT
        !.calls = Append(@, c),
        !.invocations = IF Invoked(c) THEN Append(@, InvocationOf(i, c, Env))
                        ELSE @,
        !.waiters = IF awaiting /\ readyPromise = "pending" THEN Append(@, i)
                    ELSE @,
        !.microtasks = IF awaiting /\ readyPromise # "pending" THEN Append(@, i)
                       ELSE @]

Started(c) == SetCallState(AddCall(CallState, c))

\* Application code calls a BaseAPI method, one of names with one of args.
IssueTypedOf(names, args) ==
  /\ ~Urgent
  /\ Cardinality(UserCalls) < MaxCalls
  /\ \E name \in names, arg \in args :
       Started(ensureReady(NewCall("base", name, arg, User), Env))
  /\ UNCHANGED <<accesses, eventVars, envVars, gateVars, rpcVars, fetchVars>>

IssueTyped == IssueTypedOf(TypedNames, Args)

\* Application code calls ipc.callIPC(path, arg).
IssueIpcOf(paths, args) ==
  /\ ~Urgent
  /\ Cardinality(UserCalls) < MaxCalls
  /\ \E path \in paths, arg \in args :
       Started(ensureReady(NewCall("ipc", path, arg, User), Env))
  /\ UNCHANGED <<accesses, eventVars, envVars, gateVars, rpcVars, fetchVars>>

IssueIpc == IssueIpcOf(IpcPaths, Args)

\* The continuation of 'await pyloidReadyManager.whenReady()' runs.
ResumeCall ==
  /\ microtasks # <<>>
  /\ LET i == Head(microtasks)
         c == ensureReadyResumed(calls[i], Env, readyPromise, readyError)
     IN /\ calls' = [calls EXCEPT ![i] = c]
        /\ invocations' = IF Invoked(c)
                            THEN Append(invocations, InvocationOf(i, c, Env))
                            ELSE invocations
  /\ microtasks' = Tail(microtasks)
  /\ UNCHANGED <<accesses, eventVars, envVars, gateVars, waiters, chanVars>>

\* What the promise of a host function may resolve to.
UrlValues == {<<>>, <<"h", "t", "t", "p", ":", "/", "/", "x">>,
              <<"h", "t", "t", "p", ":", "/", "/", "x", "/">>}
WidValues == {<<>>, <<"w", "1">>}

\* Server URLs with and without trailing slashes, for the join of buildUrl.
BaseUrls == {<<"h", "t", "t", "p", ":", "/", "/", "x">>,
             <<"h", "t", "t", "p", ":", "/", "/", "x", "/">>,
             <<"h", "t", "t", "p", ":", "/", "/", "x", "/", "/">>,
             <<"x">>}

HostResults(path, urls) ==
  IF path = <<"getServerUrl">> THEN urls
  ELSE IF path = <<"getWindowId">> THEN WidValues
  ELSE {<<"r", "1">>, <<"r", "2">>}

\* The promise returned by the host function settles; urls: what getServerUrl
\* may answer.
HostSettles(urls) ==
  /\ Quiescent
  /\ \E i \in DOMAIN calls :
       /\ calls[i].pc = "hostPending"
       /\ \/ \E v \in HostResults(calls[i].path, urls) :
               calls' = [calls EXCEPT ![i].pc = "done", ![i].result = v]
          \/ calls' = [calls EXCEPT ![i].pc = "failed", ![i].error = "host"]
  /\ UNCHANGED <<accesses, eventVars, envVars, gateVars, waiters, microtasks, invocations, chanVars>>

HostRespond == HostSettles(UrlValues)

HostRespondAnyUrl == HostSettles(BaseUrls)

----------------------------------------------------------------------------
(* Lazy initialisation shared by RpcClient and fetch *)

\* !value for a string-or-null field.
Falsy(v) == v = NullStr \/ v = <<>>

\* State of the promise an activation of an initialiser returned.
PromiseState(k) ==
  IF inits[k].pc = "resolved" THEN "resolved"
  ELSE IF inits[k].pc = "rejected" THEN "rejected"
  ELSE "pending"

InFlight(kind) ==
  {k \in DOMAIN inits : inits[k].kind = kind /\ ~Settled(k)}

\* The first host getter an initialiser of this kind calls.
FirstGetter(kind) ==
  IF kind = "wid" THEN <<"getWindowId">> ELSE <<"getServerUrl">>

\* initializeEndpoint / initializeServerUrl / initializeWindowId up to the first
\* await: the baseAPI getter is called and the activation suspends on it.
StartInit(cs, kind) ==
  LET k == Len(cs.inits) + 1
      c == ensureReady(NewCall("base", FirstGetter(kind), "", k), Env)
  IN [AddCall(cs, c) EXCEPT
        !.inits = Append(@, [kind |-> kind,
                             pc |-> IF kind = "wid" THEN "awaitWid"
                                    ELSE "awaitUrl",
                             call |-> Len(cs.calls) + 1])]

\* The guard of ensureEndpointInitialized / ensureServerUrlInitialized /
\* ensureWindowIdInitialized: which promise the caller will await, if any.
\* needsInit: a new activation has to be started.
\* n: the number of activations made so far (the next one is n + 1).
EnsureNoSingleFlight(value, promise, n) ==
  [await |-> Falsy(value),
   needsInit |-> Falsy(value),
   promise |-> IF Falsy(value) THEN n + 1 ELSE promise]

Ensure(value, promise, n) ==
  [await |-> Falsy(value),
   needsInit |-> Falsy(value) /\ promise = NoPromise,
   promise |-> IF Falsy(value) /\ promise = NoPromise THEN n + 1 ELSE promise]

\* An initialiser continues after the getter it awaited has settled.
InitStep ==
  /\ \E k \in DOMAIN inits :
       /\ InitRunnable(k)
       /\ \A k2 \in DOMAIN inits : InitRunnable(k2) => k <= k2
       /\ LET c == calls[inits[k].call]
              kind == inits[k].kind
          IN IF c.pc = "failed"
               THEN \* catch (error) { throw new Error(...) }
                    /\ inits' = [inits EXCEPT ![k].pc = "rejected"]
                    /\ UNCHANGED <<callVars, rpcVars, fetchVars>>
             ELSE IF kind = "rpc" /\ inits[k].pc = "awaitUrl"
               THEN \* this.endpoint = url; await baseAPI.getWindowId()
                    LET w == ensureReady(
                               NewCall("base", <<"getWindowId">>, "", k), Env)
                    IN /\ endpoint' = c.result
                       /\ SetCallState(
                            [AddCall(CallState, w) EXCEPT
                               !.inits[k].pc = "awaitWid",
                               !.inits[k].call = Len(calls) + 1])
                       /\ UNCHANGED <<endpointPromise, rpcWindowId, rpcCalls,
                                      fetchVars>>
             ELSE IF kind = "rpc"
               THEN \* this.windowId = ...; return url
                    /\ rpcWindowId' = c.result
                    /\ inits' = [inits EXCEPT ![k].pc = "resolved"]
                    /\ UNCHANGED <<callVars, endpoint, endpointPromise, rpcCalls,
                                   fetchVars>>
             ELSE IF kind = "url"
               THEN \* serverUrl = url; return url
                    /\ serverUrl' = c.result
                    /\ inits' = [inits EXCEPT ![k].pc = "resolved"]
                    /\ UNCHANGED <<callVars, rpcVars, serverUrlPromise, windowId,
                                   windowIdPromise, fetchCalls>>
             ELSE \* windowId = id; return id
                    /\ windowId' = c.result
                    /\ inits' = [inits EXCEPT ![k].pc = "resolved"]
                    /\ UNCHANGED <<callVars, rpcVars, serverUrl, serverUrlPromise,
                                   windowIdPromise, fetchCalls>>
  /\ UNCHANGED <<accesses, eventVars, envVars, gateVars>>

----------------------------------------------------------------------------
(* RpcClient *)

RpcMethods == {"ping"}
RpcParams  == {"undefined", "{a:1}"}

\* The JSON-RPC request call() builds and POSTs.
Envelope(method, params, id) ==
  [jsonrpc |-> "2.0", method |-> method,
   params |-> IF params = "undefined" THEN "{}" ELSE params,
   id |-> id]

\* call() after 'await this.ensureEndpointInitialized()' has returned.
Post(rc, url, id) ==
  [rc EXCEPT !.pc = "posting", !.url = url, !.posts = @ + 1,
             !.request = Envelope(rc.method, rc.params, id)]

\* What call() throws: the Error's class and its message, as pieces of text.
NoThrow == [name |-> "none", message |-> <<>>]

\* What the HTTP exchange gives: no response (fetch rejects), a body that is
\* not JSON (response.json() rejects), or parsed data whose error member is
\* absent (<<>>) or an error object, and whose result member may be absent.
NoResponse == [kind |-> "none", error |-> <<>>, result |-> "undefined"]

RpcErrorObjects ==
  {[message |-> "Method not found", code |-> -32601],
   [message |-> "Boom", code |-> 1]}

Responses ==
  {[kind |-> "network", error |-> <<>>, result |-> "undefined"],
   [kind |-> "notjson", error |-> <<>>, result |-> "undefined"]}
  \cup {[kind |-> "json", error |-> <<>>, result |-> r] :
          r \in {"pong", "undefined"}}
  \cup {[kind |-> "json", error |-> <<e>>, result |-> r] :
          e \in RpcErrorObjects, r \in {"pong", "undefined"}}

\* `${data.error.code}`: the decimal text of a number.
CodeText(n) == IF n = -32601 THEN "-32601" ELSE IF n = 1 THEN "1" ELSE "NaN"

\* call() from 'await fetch(...)' to its return or throw.
ReceiveIgnoringError(rc, resp) ==
  LET r == [rc EXCEPT !.response = resp]
  IN IF resp.kind = "network"
       THEN [r EXCEPT !.pc = "failed", !.error = "transport",
               !.thrown = [name |-> "TypeError", message |-> <<"Failed to fetch">>]]
     ELSE IF resp.kind = "notjson"
       THEN [r EXCEPT !.pc = "failed", !.error = "transport",
               !.thrown = [name |-> "SyntaxError", message |-> <<"Unexpected token">>]]
     ELSE [r EXCEPT !.pc = "done", !.result = resp.result]

Receive(rc, resp) ==
  LET r == [rc EXCEPT !.response = resp]
  IN IF resp.kind = "network"
       THEN [r EXCEPT !.pc = "failed", !.error = "transport",
               !.thrown = [name |-> "TypeError", message |-> <<"Failed to fetch">>]]
     ELSE IF resp.kind = "notjson"
       THEN [r EXCEPT !.pc = "failed", !.error = "transport",
               !.thrown = [name |-> "SyntaxError", message |-> <<"Unexpected token">>]]
     ELSE IF resp.error # <<>>
       THEN [r EXCEPT !.pc = "failed", !.error = "rpc",
               !.thrown = [name |-> "Error",
                           message |-> <<"RPC Error: ", resp.error[1].message,
                                         " (Code: ", CodeText(resp.error[1].code),
                                         ")">>]]
     ELSE [r EXCEPT !.pc = "done", !.result = resp.result]

\* Promise.resolve(initialEndpoint): a promise no initialiser made, resolved
\* when it is created.
ResolvedPromise == -1

RpcConstructorIgnoresEndpoint(initialEndpoint) ==
  [endpoint |-> NullStr, endpointPromise |-> NoPromise, windowId |-> NullStr]

\* new RpcClient(initialEndpoint); NullStr stands for an omitted argument.
RpcConstructor(initialEndpoint) ==
  IF ~Falsy(initialEndpoint)
    THEN [endpoint |-> initialEndpoint, endpointPromise |-> ResolvedPromise,
          windowId |-> NullStr]
    ELSE [endpoint |-> NullStr, endpointPromise |-> NoPromise,
          windowId |-> NullStr]

NewRpcCall(method, params) ==
  [method |-> method, params |-> params, pc |-> "start", awaits |-> NoPromise,
   url |-> NullStr, posts |-> 0,
   request |-> Envelope(method, params, NullStr),
   error |-> "none", thrown |-> NoThrow, response |-> NoResponse,
   result |-> "undefined"]

\* Application code calls rpc.call(method, params).
RpcCall ==
  /\ ~Urgent
  /\ Len(rpcCalls) < MaxRpcCalls
  /\ \E method \in RpcMethods, params \in RpcParams :
       LET en == Ensure(endpoint, endpointPromise, Len(inits))
           rc == NewRpcCall(method, params)
       IN /\ SetCallState(IF en.needsInit THEN StartInit(CallState, "rpc")
                          ELSE CallState)
          /\ endpointPromise' = en.promise
          /\ rpcCalls' = Append(rpcCalls,
               IF en.await
                 THEN [rc EXCEPT !.pc = "awaitInit", !.awaits = en.promise]
                 ELSE Post(rc, endpoint, rpcWindowId))
  /\ UNCHANGED <<accesses, eventVars, envVars, gateVars, endpoint, rpcWindowId, fetchVars>>

\* call() continues after the endpointPromise it awaited has settled.
RpcResume ==
  /\ ~(\E k \in DOMAIN inits : InitRunnable(k))
  /\ \E j \in DOMAIN rpcCalls :
       /\ RpcRunnable(j)
       /\ \A j2 \in DOMAIN rpcCalls : RpcRunnable(j2) => j <= j2
       /\ rpcCalls' =
            [rpcCalls EXCEPT ![j] =
               IF PromiseState(@.awaits) = "rejected"
                 THEN [@ EXCEPT !.pc = "failed", !.error = "init"]
               ELSE IF Falsy(endpoint)
                 THEN [@ EXCEPT !.pc = "failed", !.error = "noendpoint"]
               ELSE Post(@, endpoint, rpcWindowId)]
  /\ UNCHANGED <<accesses, eventVars, envVars, gateVars, callVars, inits, endpoint, endpointPromise,
                 rpcWindowId, fetchVars>>

\* The HTTP exchange of a POST ends and call() returns or throws.
RpcRespond ==
  /\ Quiescent
  /\ \E j \in DOMAIN rpcCalls :
       /\ rpcCalls[j].pc = "posting"
       /\ \E resp \in Responses :
            rpcCalls' = [rpcCalls EXCEPT ![j] = Receive(@, resp)]
  /\ UNCHANGED <<accesses, eventVars, envVars, gateVars, callVars, inits, endpoint, endpointPromise,
                 rpcWindowId, fetchVars>>

----------------------------------------------------------------------------
(* The fetch module *)

Http  == <<"h", "t", "t", "p", ":", "/", "/">>
Https == <<"h", "t", "t", "p", "s", ":", "/", "/">>

startsWith(s, p) == Len(s) >= Len(p) /\ SubSeq(s, 1, Len(p)) = p

buildUrlNoTrim(base, path) ==
  IF startsWith(path, Http) \/ startsWith(path, Https) THEN path
  ELSE base \o <<"/">> \o path

buildUrl(base, path) ==
  IF startsWith(path, Http) \/ startsWith(path, Https) THEN path
  ELSE LET baseUrl == IF Len(base) > 0 /\ base[Len(base)] = "/"
                        THEN SubSeq(base, 1, Len(base) - 1) ELSE base
           cleanPath == IF Len(path) > 0 /\ path[1] = "/"
                          THEN SubSeq(path, 2, Len(path)) ELSE path
       IN baseUrl \o <<"/">> \o cleanPath

SessionHeader == "X-Pyloid-Window-Id"

NoHeaders == [n \in {} |-> <<>>]

\* ...options.headers: the own enumerable properties of the headers value.  A
\* plain object spreads its entries; a Headers instance keeps its entries in
\* internal slots and spreads nothing.
Spread(options) ==
  IF options.headersForm = "object" THEN options.headers ELSE NoHeaders

\* { ...options, headers: { 'X-Pyloid-Window-Id': windowId, ...options.headers } }
enhancedOptionsCallerWins(options, wid) ==
  [options EXCEPT
     !.headersForm = "object",
     !.headers =
       [n \in DOMAIN Spread(options) \cup {SessionHeader} |->
          IF n \in DOMAIN Spread(options) THEN Spread(options)[n] ELSE wid]]

\* { ...options, headers: { ...options.headers, 'X-Pyloid-Window-Id': windowId } }
enhancedOptions(options, wid) ==
  [options EXCEPT
     !.headersForm = "object",
     !.headers =
       [n \in DOMAIN Spread(options) \cup {SessionHeader} |->
          IF n = SessionHeader THEN wid ELSE Spread(options)[n]]]

FetchInputs == {<<"/", "a">>, Https \o <<"y">>}

\* Request inputs for the join of buildUrl: relative with one, no and two
\* leading slashes, empty, and absolute under both schemes.
PathInputs == {<<"/", "a", "/", "b">>, <<"a">>, <<"/", "/", "a">>, <<>>,
               <<"/">>, Http \o <<"y">>, Https \o <<"y", "/">>}

\* options = {}: no headers, and the platform's defaults for the rest.
DefaultOptions ==
  [headers |-> NoHeaders, headersForm |-> "object", method |-> "GET",
   body |-> "none", signal |-> "none"]

\* The caller's RequestInit: headers as a plain object or as a Headers
\* instance, a method, a body, an AbortSignal.
FetchOptions ==
  {DefaultOptions,
   [headers |-> (SessionHeader :> <<"c">>) @@ ("Accept" :> <<"j">>),
    headersForm |-> "object", method |-> "POST", body |-> "{}",
    signal |-> "controller.signal"],
   [headers |-> ("Accept" :> <<"j">>), headersForm |-> "Headers",
    method |-> "GET", body |-> "none", signal |-> "none"]}

\* The exported accessors of the fetch module.
getServerUrl == serverUrl

isServerUrlReady == serverUrl # NullStr

getWindowId == windowId

isWindowIdReady == windowId # NullStr

NewFetch(input, options) ==
  [input |-> input, options |-> options, pc |-> "awaitInit",
   readyAtIssue |-> isServerUrlReady /\ isWindowIdReady,
   url |-> "ok", awaitsUrl |-> NoPromise, wid |-> "ok", awaitsWid |-> NoPromise,
   requestUrl |-> NullStr, requestOptions |-> options, requests |-> 0,
   error |-> "none", platformError |-> NoThrow, thrown |-> NoThrow]

\* One branch of Promise.all after the promise it awaited has settled:
\* 'await p' throws the initialiser's error, or 'if (!value) throw' runs.
PartAfterAwait(part, promise, value, what) ==
  IF part # "pending" \/ ~Settled(promise) THEN [part |-> part, error |-> "none"]
  ELSE IF PromiseState(promise) = "rejected"
    THEN [part |-> "failed", error |-> "init" \o what]
  ELSE IF Falsy(value) THEN [part |-> "failed", error |-> "no" \o what]
  ELSE [part |-> "ok", error |-> "none"]

AfterAllUrlOnly(fc, u, w) ==
  LET f == [fc EXCEPT !.url = u.part, !.wid = w.part]
  IN IF u.part = "failed" THEN [f EXCEPT !.pc = "failed", !.error = u.error]
     ELSE IF u.part = "ok" /\ w.part # "pending"
       THEN [f EXCEPT !.pc = "requesting", !.requests = @ + 1,
                      !.requestUrl = buildUrl(serverUrl, fc.input),
                      !.requestOptions = enhancedOptions(fc.options, windowId)]
     ELSE f

AfterAllAbsoluteSkipsUrl(fc, u, w) ==
  LET f == [fc EXCEPT !.url = u.part, !.wid = w.part]
      absolute == startsWith(fc.input, Http) \/ startsWith(fc.input, Https)
  IN IF u.part = "failed" /\ ~absolute
       THEN [f EXCEPT !.pc = "failed", !.error = u.error]
     ELSE IF w.part = "failed" THEN [f EXCEPT !.pc = "failed", !.error = w.error]
     ELSE IF u.part # "pending" /\ w.part = "ok"
       THEN [f EXCEPT !.pc = "requesting", !.requests = @ + 1,
                      !.requestUrl = buildUrl(serverUrl, fc.input),
                      !.requestOptions = enhancedOptions(fc.options, windowId)]
     ELSE f

\* fetch() once Promise.all has settled: the request is built and handed to
\* globalThis.fetch, or the first rejection is thrown.
AfterAll(fc, u, w) ==
  LET f == [fc EXCEPT !.url = u.part, !.wid = w.part]
  IN IF u.part = "failed" THEN [f EXCEPT !.pc = "failed", !.error = u.error]
     ELSE IF w.part = "failed" THEN [f EXCEPT !.pc = "failed", !.error = w.error]
     ELSE IF u.part = "ok" /\ w.part = "ok"
       THEN [f EXCEPT !.pc = "requesting", !.requests = @ + 1,
                      !.requestUrl = buildUrl(serverUrl, fc.input),
                      !.requestOptions = enhancedOptions(fc.options, windowId)]
     ELSE f

\* Application code calls fetch(input, options).
FetchOf(inputSet, optionSet) ==
  /\ ~Urgent
  /\ Len(fetchCalls) < MaxFetchCalls
  /\ \E input \in inputSet, options \in optionSet :
       LET enU == Ensure(serverUrl, serverUrlPromise, Len(inits))
           cs1 == IF enU.needsInit THEN StartInit(CallState, "url")
                  ELSE CallState
           enW == Ensure(windowId, windowIdPromise, Len(cs1.inits))
           cs2 == IF enW.needsInit THEN StartInit(cs1, "wid") ELSE cs1
           fc  == [NewFetch(input, options) EXCEPT
                     !.url = IF enU.await THEN "pending" ELSE "ok",
                     !.awaitsUrl = IF enU.await THEN enU.promise ELSE NoPromise,
                     !.wid = IF enW.await THEN "pending" ELSE "ok",
                     !.awaitsWid = IF enW.await THEN enW.promise ELSE NoPromise]
       IN /\ SetCallState(cs2)
          /\ serverUrlPromise' = enU.promise
          /\ windowIdPromise' = enW.promise
          /\ fetchCalls' = Append(fetchCalls,
               IF enU.await \/ enW.await THEN fc
               ELSE AfterAll(fc, [part |-> "ok", error |-> "none"],
                                 [part |-> "ok", error |-> "none"]))
  /\ UNCHANGED <<accesses, eventVars, envVars, gateVars, rpcVars, serverUrl, windowId>>

Fetch == FetchOf(FetchInputs, FetchOptions)

FetchAnyPath == FetchOf(PathInputs, {DefaultOptions})

\* fetch() continues after a promise it awaited has settled.
FetchResume ==
  /\ ~(\E k \in DOMAIN inits : InitRunnable(k))
  /\ \E j \in DOMAIN fetchCalls :
       /\ FetchRunnable(j)
       /\ \A j2 \in DOMAIN fetchCalls : FetchRunnable(j2) => j <= j2
       /\ LET fc == fetchCalls[j]
              u == PartAfterAwait(fc.url, fc.awaitsUrl, serverUrl, "Url")
              w == PartAfterAwait(fc.wid, fc.awaitsWid, windowId, "Wid")
          IN fetchCalls' = [fetchCalls EXCEPT ![j] = AfterAll(fc, u, w)]
  /\ UNCHANGED <<accesses, eventVars, envVars, gateVars, callVars, inits, rpcVars, serverUrl,
                 serverUrlPromise, windowId, windowIdPromise>>

\* What globalThis.fetch rejects with.
PlatformErrors ==
  {[name |-> "TypeError", message |-> <<"Failed to fetch">>],
   [name |-> "AbortError", message |-> <<"The operation was aborted">>]}

\* catch (error) { console.error(...); throw error; }
catchWrapping(fc, err) ==
  [fc EXCEPT !.pc = "failed", !.error = "transport", !.platformError = err,
             !.thrown = [name |-> "Error",
                         message |-> <<"Request failed: ">> \o err.message]]

catch(fc, err) ==
  [fc EXCEPT !.pc = "failed", !.error = "transport", !.platformError = err,
             !.thrown = err]

\* The request handed to globalThis.fetch ends: a Response, or a failure.
FetchRespond ==
  /\ Quiescent
  /\ \E j \in DOMAIN fetchCalls :
       /\ fetchCalls[j].pc = "requesting"
       /\ \/ fetchCalls' = [fetchCalls EXCEPT ![j].pc = "done"]
          \/ \E err \in PlatformErrors :
               fetchCalls' = [fetchCalls EXCEPT ![j] = catch(@, err)]
  /\ UNCHANGED <<accesses, eventVars, envVars, gateVars, callVars, inits, rpcVars, serverUrl,
                 serverUrlPromise, windowId, windowIdPromise>>

----------------------------------------------------------------------------
(* EventAPI *)

EventNames == {"a", "b"}
Callbacks  == {"f", "g"}

\* event.detail: a string (its text as characters) or a structured value.
Str(text) == [t |-> "string", text |-> text]
Details ==
  {Str(<<"4", "2">>), Str(<<"{", "x">>), [t |-> "object", text |-> <<"payload">>]}

Digits == {"0", "1", "2", "3", "4", "5", "6", "7", "8", "9"}

\* JSON.parse on the texts the model uses: a number, a quoted string, the
\* literal null or the empty object; anything else is a SyntaxError.
JsonParse(text) ==
  IF text # <<>> /\ \A n \in DOMAIN text : text[n] \in Digits
    THEN [ok |-> TRUE, value |-> [t |-> "number", text |-> text]]
  ELSE IF /\ Len(text) >= 2
          /\ text[1] = "\"" /\ text[Len(text)] = "\""
          /\ \A n \in 2..(Len(text) - 1) : text[n] # "\""
    THEN [ok |-> TRUE, value |-> Str(SubSeq(text, 2, Len(text) - 1))]
  ELSE IF text = <<"n", "u", "l", "l">>
    THEN [ok |-> TRUE, value |-> [t |-> "null", text |-> <<>>]]
  ELSE IF text = <<"{", "}">>
    THEN [ok |-> TRUE, value |-> [t |-> "object", text |-> <<>>]]
  ELSE [ok |-> FALSE, value |-> [t |-> "undefined", text |-> <<>>]]

\* The data the eventHandler closure hands to its callback.
eventHandlerNoFallback(detail) ==
  IF detail.t = "string" THEN JsonParse(detail.text).value ELSE detail

eventHandler(detail) ==
  IF detail.t = "string"
    THEN IF JsonParse(detail.text).ok THEN JsonParse(detail.text).value
         ELSE detail
    ELSE detail

\* The EventAPI and the document's listener list as one value.
EventState ==
  [listeners |-> listeners, handlerOf |-> eventHandlerOf,
   handlers |-> handlers, attached |-> attached]

listen(es, name, cb) ==
  LET h == Len(es.handlers) + 1
  IN [es EXCEPT !.listeners[name] = Append(@, cb),
                !.handlers = Append(@, [event |-> name, callback |-> cb]),
                !.handlerOf[cb] = h,
                !.attached = Append(@, h)]

\* document.removeEventListener(name, h): h leaves the list if it is attached
\* under that event name.
removeEventListener(es, name, h) ==
  [es EXCEPT !.attached =
     SelectSeq(@, LAMBDA x : ~(x = h /\ es.handlers[x].event = name))]

\* The forEach of unlisten over the stored callbacks from index k on.
RECURSIVE removeEach(_, _, _)
removeEach(es, name, k) ==
  IF k > Len(es.listeners[name]) THEN es
  ELSE LET h == es.handlerOf[es.listeners[name][k]]
       IN removeEach(IF h # 0 THEN removeEventListener(es, name, h) ELSE es,
                     name, k + 1)

unlisten(es, name) ==
  IF es.listeners[name] # <<>>
    THEN [removeEach(es, name, 1) EXCEPT !.listeners[name] = <<>>]
    ELSE es

\* Object.keys(this._listeners): the names that hold callbacks.
Keys(es) == {name \in EventNames : es.listeners[name] # <<>>}

RECURSIVE unlistenEach(_, _)
unlistenEach(es, names) ==
  IF names = {} THEN es
  ELSE LET name == CHOOSE n \in names : TRUE
       IN unlistenEach(unlisten(es, name), names \ {name})

clearAllListeners(es) == unlistenEach(es, Keys(es))

SetEventState(es) ==
  /\ listeners' = es.listeners
  /\ eventHandlerOf' = es.handlerOf
  /\ handlers' = es.handlers
  /\ attached' = es.attached

\* Closures listen(name, ...) has created so far.
CreatedFor(names) ==
  {h \in DOMAIN handlers : handlers[h].event \in names}

\* Application code calls event.listen(name, cb).
Listen ==
  /\ Len(handlers) < MaxListens
  /\ \E name \in EventNames, cb \in Callbacks :
       SetEventState(listen(EventState, name, cb))
  /\ lastOp' = "listen"
  /\ UNCHANGED <<accesses, revoked, dispatches, deliveries, envVars, gateVars, callVars,
                 chanVars>>

\* Application code calls event.unlisten(name).
Unlisten ==
  /\ \E name \in EventNames :
       /\ SetEventState(unlisten(EventState, name))
       /\ revoked' = revoked \cup CreatedFor({name})
  /\ lastOp' = "unlisten"
  /\ UNCHANGED <<accesses, dispatches, deliveries, envVars, gateVars, callVars, chanVars>>

\* Application code calls event.clearAllListeners().
ClearAllListeners ==
  /\ SetEventState(clearAllListeners(EventState))
  /\ revoked' = revoked \cup CreatedFor(Keys(EventState))
  /\ lastOp' = "clearAllListeners"
  /\ UNCHANGED <<accesses, dispatches, deliveries, envVars, gateVars, callVars, chanVars>>

\* The closures the document calls for an event of this name, in order.
Targets(name) == SelectSeq(attached, LAMBDA h : handlers[h].event = name)

\* The host dispatches a CustomEvent on the document: every attached closure
\* of that name runs and invokes its callback.
DispatchEvent ==
  /\ Len(dispatches) < MaxDispatches
  /\ \E name \in EventNames, detail \in Details :
       LET d == Len(dispatches) + 1
           targets == Targets(name)
       IN /\ dispatches' = Append(dispatches,
               [event |-> name, detail |-> detail, targets |-> targets])
          /\ deliveries' = deliveries \o
               [k \in 1..Len(targets) |->
                  [dispatch |-> d, handler |-> targets[k],
                   callback |-> handlers[targets[k]].callback,
                   data |-> eventHandler(detail),
                   afterUnlisten |-> targets[k] \in revoked]]
  /\ lastOp' = "dispatch"
  /\ UNCHANGED <<accesses, listeners, eventHandlerOf, handlers, attached, revoked,
                 envVars, gateVars, callVars, chanVars>>

----------------------------------------------------------------------------
(* Specification of the gate and its direct callers *)

InitGate ==
  /\ hasWindow \in BOOLEAN
  /\ bridge \in (IF hasWindow THEN BOOLEAN ELSE {FALSE})
  /\ ipcInjected \in (IF hasWindow THEN BOOLEAN ELSE {FALSE})
  /\ LET g == Constructor(hasWindow, bridge)
     IN /\ ready = g.ready
        /\ readyPromise = g.promise
        /\ readyError = g.error
        /\ pollingInterval = g.interval
        /\ pollingTimeout = g.timeout
        /\ timers = g.timers
        /\ readyLogs = g.logs
  /\ calls = <<>>
  /\ waiters = <<>>
  /\ microtasks = <<>>
  /\ invocations = <<>>

\* The module-level state of rpc.ts (rpc = new RpcClient()) and of the fetch
\* module before any call.
InitChannels ==
  /\ inits = <<>>
  /\ endpoint = NullStr
  /\ endpointPromise = NoPromise
  /\ rpcWindowId = NullStr
  /\ rpcCalls = <<>>
  /\ serverUrl = NullStr
  /\ serverUrlPromise = NoPromise
  /\ windowId = NullStr
  /\ windowIdPromise = NoPromise
  /\ fetchCalls = <<>>

\* event = new EventAPI(), and a document nothing was dispatched on.
InitEvents ==
  /\ listeners = [name \in EventNames |-> <<>>]
  /\ eventHandlerOf = [cb \in Callbacks |-> 0]
  /\ handlers = <<>>
  /\ attached = <<>>
  /\ revoked = {}
  /\ dispatches = <<>>
  /\ deliveries = <<>>
  /\ lastOp = "none"

\* ipc = new Proxy(new IPC(), ipcProxyHandler), not used yet.
InitProxy == accesses = <<>>

Init == InitGate /\ InitChannels /\ InitEvents /\ InitProxy

Next ==
  \/ InjectBridge
  \/ InjectIpc
  \/ PollTick
  \/ TimeoutFire
  \/ SetReady
  \/ IssueTyped
  \/ IssueIpc
  \/ ResumeCall
  \/ HostRespond

Spec == Init /\ [][Next]_vars

\* The browser runs an armed timer's callback once its delay has passed, and
\* the microtask queue is drained after every task: an armed interval or
\* timeout and a queued continuation are not postponed forever.
Fairness ==
  /\ WF_vars(PollTick)
  /\ WF_vars(TimeoutFire)
  /\ WF_vars(ResumeCall)

\* The calls of the liveness specification: which method is called and with
\* what argument has no bearing on how long a call waits on the gate.
IssueOneTyped == IssueTypedOf({<<"setTitle">>}, {"Hello"})

IssueOneIpc == IssueIpcOf({<<"main", ".", "getVersion">>}, {"Hello"})

NextLive ==
  \/ InjectBridge
  \/ InjectIpc
  \/ PollTick
  \/ TimeoutFire
  \/ SetReady
  \/ IssueOneTyped
  \/ IssueOneIpc
  \/ ResumeCall
  \/ HostRespond

SpecLive == Init /\ [][NextLive]_vars /\ Fairness

----------------------------------------------------------------------------
(* Specification of both channels over the gate *)

\* The two channels share nothing but the gate, which neither of them writes:
\* a behaviour exercises one of them.
NextChan ==
  \/ InjectBridge
  \/ PollTick
  \/ TimeoutFire
  \/ SetReady
  \/ ResumeCall
  \/ HostRespond
  \/ InitStep
  \/ (fetchCalls = <<>> /\ RpcCall)
  \/ RpcResume
  \/ RpcRespond
  \/ (rpcCalls = <<>> /\ Fetch)
  \/ FetchResume
  \/ FetchRespond

SpecChan == Init /\ [][NextChan]_vars

----------------------------------------------------------------------------
(* Specification of fetch's URL join: the bridge is present at construction, *)
(* the host answers getServerUrl with any of BaseUrls, the application       *)
(* fetches any of PathInputs.                                                *)

InitUrl == Init /\ hasWindow /\ bridge

NextUrl ==
  \/ HostRespondAnyUrl
  \/ InitStep
  \/ FetchAnyPath
  \/ FetchResume
  \/ FetchRespond

SpecUrl == InitUrl /\ [][NextUrl]_vars

----------------------------------------------------------------------------
(* Specification of an RpcClient constructed with an endpoint, over a gate  *)
(* in any environment.                                                       *)

SuppliedEndpoints == {<<"h", "t", "t", "p", ":", "/", "/", "e", "1">>,
                      <<"e", "2">>}

\* rpc = new RpcClient(e) for a supplied endpoint e; the fetch module unused.
InitSuppliedChannels ==
  /\ inits = <<>>
  /\ \E e \in SuppliedEndpoints :
       LET c == RpcConstructor(e)
       IN /\ endpoint = c.endpoint
          /\ endpointPromise = c.endpointPromise
          /\ rpcWindowId = c.windowId
  /\ rpcCalls = <<>>
  /\ serverUrl = NullStr
  /\ serverUrlPromise = NoPromise
  /\ windowId = NullStr
  /\ windowIdPromise = NoPromise
  /\ fetchCalls = <<>>

InitEndpoint == InitGate /\ InitSuppliedChannels /\ InitEvents /\ InitProxy

NextEndpoint ==
  \/ InjectBridge
  \/ PollTick
  \/ TimeoutFire
  \/ SetReady
  \/ RpcCall
  \/ RpcRespond

SpecEndpoint == InitEndpoint /\ [][NextEndpoint]_vars

----------------------------------------------------------------------------
(* The ipc proxy: ipcProxyHandler over an IPC instance *)

MaxAccesses == 2

\* What a chain of property reads on the proxy has produced so far.
\*   "ipc":       the exported proxy itself
\*   "nested":    the Proxy returned by the outer get trap for prop path[1]
\*   "arrow":     (...args) => target.callIPC(fullPath, ...args)
\*   "method":    target[prop] for the two names the outer trap passes through
\*   "undefined": a property a function does not have
\*   "throw":     a read from undefined raised a TypeError
IpcProxy == [t |-> "ipc", path |-> <<>>]

PassedThrough == {"callIPC", "ensureReady"}

\* One property read. The segment names used here are not properties of
\* functions (such as call, bind or name).
proxyGet(v, prop) ==
  IF v.t = "ipc"
    THEN IF prop \notin PassedThrough THEN [t |-> "nested", path |-> <<prop>>]
         ELSE [t |-> "method", path |-> <<prop>>]
  ELSE IF v.t = "nested"
    THEN [t |-> "arrow", path |-> v.path \o <<".", prop>>]
  ELSE IF v.t \in {"arrow", "method"}
    THEN [t |-> "undefined", path |-> <<>>]
  ELSE [t |-> "throw", path |-> <<>>]

\* ipc.s1.s2...sn: the reads of chain[i..] applied to v, left to right.
RECURSIVE proxyChain(_, _, _)
proxyChain(v, chain, i) ==
  IF i > Len(chain) \/ v.t = "throw" THEN v
  ELSE proxyChain(proxyGet(v, chain[i]), chain, i + 1)

\* s1 + '.' + s2 + ... as the text of a path.
RECURSIVE JoinDots(_)
JoinDots(chain) ==
  IF Len(chain) = 0 THEN <<>>
  ELSE IF Len(chain) = 1 THEN chain
  ELSE <<Head(chain), ".">> \o JoinDots(Tail(chain))

\* Chains the application writes after 'ipc'.
ProxyChains == {<<"main">>, <<"main", "getVersion">>,
                <<"main", "version", "toFixed">>}

NewAccess(chain, arg, applied) ==
  [chain |-> chain, arg |-> arg, applied |-> applied, outcome |-> "read",
   call |-> 0]

\* Application code evaluates ipc.s1...sn(arg): the apply trap of the nested
\* proxy or the arrow function calls target.callIPC; anything else is not
\* callable and the expression throws a TypeError.
ProxyCall ==
  /\ ~Urgent
  /\ Len(accesses) < MaxAccesses
  /\ \E chain \in ProxyChains, arg \in Args :
       LET v == proxyChain(IpcProxy, chain, 1)
           a == NewAccess(chain, arg, TRUE)
       IN IF v.t \in {"nested", "arrow"}
            THEN /\ Started(ensureReady(NewCall("ipc", v.path, arg, User), Env))
                 /\ accesses' = Append(accesses,
                      [a EXCEPT !.outcome = "callIPC", !.call = Len(calls) + 1])
            ELSE /\ accesses' = Append(accesses,
                      [a EXCEPT !.outcome = "TypeError"])
                 /\ UNCHANGED <<callVars, inits>>
  /\ UNCHANGED <<eventVars, envVars, gateVars, rpcVars, fetchVars>>

\* Application code evaluates ipc.s1...sn without calling the result.
ProxyRead ==
  /\ ~Urgent
  /\ Len(accesses) < MaxAccesses
  /\ \E chain \in ProxyChains :
       LET v == proxyChain(IpcProxy, chain, 1)
           a == NewAccess(chain, "", FALSE)
       IN accesses' = Append(accesses,
            [a EXCEPT !.outcome = IF v.t = "throw" THEN "TypeError" ELSE "read"])
  /\ UNCHANGED <<eventVars, envVars, gateVars, callVars, chanVars>>

NextProxy ==
  \/ InjectBridge
  \/ InjectIpc
  \/ PollTick
  \/ TimeoutFire
  \/ ProxyCall
  \/ ProxyRead
  \/ ResumeCall
  \/ HostRespond

SpecProxy == Init /\ [][NextProxy]_vars

----------------------------------------------------------------------------
(* Specification of the EventAPI over a document *)

InitEvent == Init /\ hasWindow /\ bridge /\ ipcInjected

NextEvent ==
  \/ Listen
  \/ Unlisten
  \/ ClearAllListeners
  \/ DispatchEvent

SpecEvent == InitEvent /\ [][NextEvent]_vars

----------------------------------------------------------------------------
(* Claims *)

InvocationsOf(i) == {k \in DOMAIN invocations : invocations[k].call = i}

TimedOut == readyPromise = "rejected" /\ readyError = "timeout"

\* C1: no host function is invoked, by a typed method or by callIPC, while
\* isReady() is false: every invocation happens with the ready flag set, and a
\* call that is still waiting on the gate has invoked nothing.
C1_NoInvocationBeforeReady ==
  /\ \A k \in DOMAIN invocations : invocations[k].ready
  /\ \A i \in DOMAIN calls :
       /\ calls[i].dispatched => calls[i].readyAtDispatch
       /\ calls[i].pc = "awaitReady" => InvocationsOf(i) = {}
       /\ InvocationsOf(i) # {} => ready

\* A typed call and a dynamic call that waited on the gate have both reached
\* the host.
C1_Witness ==
  /\ \E i \in DOMAIN calls :
       calls[i].api = "base" /\ calls[i].waited /\ InvocationsOf(i) # {}
  /\ \E i \in DOMAIN calls :
       calls[i].api = "ipc" /\ calls[i].waited /\ InvocationsOf(i) # {}

\* C2: the SDK never sends a typed call to the bridge (runs
\* window.__PYLOID__.f(...)) at a moment when window.__PYLOID__ is absent.
C2_NoDispatchWithoutBridge ==
  \A i \in DOMAIN calls :
    (calls[i].api = "base" /\ calls[i].dispatched) => calls[i].bridgeAtDispatch

\* C3: a typed call issued while the gate is not ready is invoked on the host
\* exactly once, under its own name and arguments, once the gate's completion
\* signal has resolved; if the signal is rejected it invokes nothing and fails.
C3_ExactlyOneInvocation ==
  \A i \in DOMAIN calls :
    (calls[i].api = "base" /\ calls[i].waited) =>
      /\ Cardinality(InvocationsOf(i)) <= 1
      /\ \A k \in InvocationsOf(i) :
           invocations[k].fn = calls[i].path /\ invocations[k].arg = calls[i].arg
      /\ (calls[i].pc # "awaitReady" /\ readyPromise = "resolved")
           => Cardinality(InvocationsOf(i)) = 1
      /\ (calls[i].pc # "awaitReady" /\ readyPromise = "rejected")
           => (InvocationsOf(i) = {} /\ calls[i].pc = "failed")

\* C4: once the timeout has rejected the completion signal, the signal stays
\* rejected with the timeout error in every later state, also after the bridge
\* has appeared, and no polling timer is left to detect the bridge.
C4_TimeoutIsTerminal ==
  /\ [](TimedOut => (pollingInterval = Null /\ "interval" \notin timers))
  /\ [][TimedOut => TimedOut']_vars

\* The timeout has fired and the bridge appeared afterwards; the gate was even
\* told to be ready.
C4_Witness == TimedOut /\ bridge /\ ready

\* C5: after the completion signal has been rejected (timeout or no window),
\* isReady() is false in every later state.
C5_RejectedNeverReady == readyPromise = "rejected" => ~isReady(Gate)

\* C10: setReady() is idempotent: applying it twice (or three times) to any
\* reachable gate gives the gate that applying it once gives, an invocation
\* on a ready gate changes nothing, and its effects (the 'ready' line, the
\* resolution of the completion signal) happen at most once.
C10_SetReadyIdempotent ==
  /\ setReady(setReady(Gate)) = setReady(Gate)
  /\ setReady(setReady(setReady(Gate))) = setReady(Gate)
  /\ (ready => setReady(Gate) = Gate)
  /\ readyLogs <= 1

\* The application has invoked setReady() on a gate that was polling, with a
\* call waiting on it; every further invocation finds the gate ready.
C10_Witness ==
  /\ ~bridge /\ ready /\ readyLogs = 1 /\ readyPromise = "resolved"
  /\ \E i \in DOMAIN calls : calls[i].waited

\* Invocations of a host getter made by initialisers of one kind.
GetterInvocations(kind, getter) ==
  {n \in DOMAIN invocations :
     /\ invocations[n].fn = getter
     /\ calls[invocations[n].call].owner # User
     /\ inits[calls[invocations[n].call].owner].kind = kind}

Posted(j) == rpcCalls[j].url # NullStr

Requested(j) == fetchCalls[j].requestUrl # NullStr

\* C6: calls that find a cache unresolved share one resolution: there are
\* never two attempts in flight for one cache, each host getter is invoked at
\* most once per cache, all such calls await the same promise, and a call that
\* gets through used the value of the single getter invocation.
C6_SingleFlight ==
  /\ \A kind \in {"rpc", "url", "wid"} :
       /\ Cardinality(InFlight(kind)) <= 1
       /\ \A getter \in {<<"getServerUrl">>, <<"getWindowId">>} :
            Cardinality(GetterInvocations(kind, getter)) <= 1
  /\ \A j1, j2 \in DOMAIN rpcCalls :
       (rpcCalls[j1].awaits # NoPromise /\ rpcCalls[j2].awaits # NoPromise)
         => rpcCalls[j1].awaits = rpcCalls[j2].awaits
  /\ \A j1, j2 \in DOMAIN fetchCalls :
       /\ (fetchCalls[j1].awaitsUrl # NoPromise
             /\ fetchCalls[j2].awaitsUrl # NoPromise)
            => fetchCalls[j1].awaitsUrl = fetchCalls[j2].awaitsUrl
       /\ (fetchCalls[j1].awaitsWid # NoPromise
             /\ fetchCalls[j2].awaitsWid # NoPromise)
            => fetchCalls[j1].awaitsWid = fetchCalls[j2].awaitsWid
  /\ \A j \in DOMAIN rpcCalls :
       (rpcCalls[j].awaits # NoPromise /\ Posted(j)) =>
         /\ \E n \in GetterInvocations("rpc", <<"getServerUrl">>) :
              rpcCalls[j].url = calls[invocations[n].call].result
         /\ \E n \in GetterInvocations("rpc", <<"getWindowId">>) :
              rpcCalls[j].request.id = calls[invocations[n].call].result
  /\ \A j \in DOMAIN fetchCalls :
       /\ (fetchCalls[j].awaitsUrl # NoPromise /\ Requested(j)) =>
            \E n \in GetterInvocations("url", <<"getServerUrl">>) :
              fetchCalls[j].requestUrl =
                buildUrl(calls[invocations[n].call].result, fetchCalls[j].input)
       /\ (fetchCalls[j].awaitsWid # NoPromise /\ Requested(j)) =>
            \E n \in GetterInvocations("wid", <<"getWindowId">>) :
              fetchCalls[j].requestOptions.headers[SessionHeader] =
                calls[invocations[n].call].result

\* Two rpc calls raced the unresolved endpoint cache, awaited one promise and
\* both POSTed to the resolved endpoint.
C6_Witness ==
  /\ Len(rpcCalls) >= 2
  /\ \A j \in 1..2 :
       /\ rpcCalls[j].awaits # NoPromise
       /\ Posted(j)
       /\ rpcCalls[j].url = endpoint

\* C7: every POST of a client constructed without an endpoint is issued after
\* both the endpoint and the session id have been resolved, and its envelope's
\* id is the resolved session id, never null.
C7_PostCarriesSessionId ==
  \A j \in DOMAIN rpcCalls :
    Posted(j) =>
      /\ rpcCalls[j].request.id # NullStr
      /\ rpcCalls[j].request.id = rpcWindowId

\* C8: a failed resolution leaves the cache it was resolving empty: after a
\* failed initializeEndpoint neither endpoint nor session id of the RpcClient
\* holds a value, after a failed initializeServerUrl / initializeWindowId
\* serverUrl / windowId is still unset.
C8_FailedInitLeavesCacheEmpty ==
  \A k \in DOMAIN inits :
    inits[k].pc = "rejected" =>
      IF inits[k].kind = "rpc" THEN Falsy(endpoint) /\ Falsy(rpcWindowId)
      ELSE IF inits[k].kind = "url" THEN serverUrl = NullStr
      ELSE windowId = NullStr

\* The cache is empty and the marker over it holds a failed attempt.
StaleFailure(value, promise) ==
  /\ Falsy(value)
  /\ promise # NoPromise
  /\ PromiseState(promise) = "rejected"

\* C9: after a resolution attempt has failed, the next call() or fetch() that
\* finds the cache empty starts a new attempt.
C9_RetryAfterFailure ==
  [][/\ (Len(rpcCalls') > Len(rpcCalls)
           /\ StaleFailure(endpoint, endpointPromise))
          => Len(inits') > Len(inits)
     /\ (Len(fetchCalls') > Len(fetchCalls)
           /\ (StaleFailure(serverUrl, serverUrlPromise)
                 \/ StaleFailure(windowId, windowIdPromise)))
          => Len(inits') > Len(inits)]_vars

\* The step is a first invocation of setReady(): the flag turns true.
FirstSetReady == ~ready /\ ready'

PollingCancelled ==
  pollingInterval = Null /\ pollingTimeout = Null /\ timers = {}

Immutable(value, valueAfter) == value # NullStr => valueAfter = value

\* C12: once RpcClient.endpoint, RpcClient.windowId, the fetch module's
\* serverUrl or its windowId holds a value, no later step (a call, a fetch, a
\* resolution that succeeds or fails) changes it.
C12_CachesImmutable ==
  [][/\ Immutable(endpoint, endpoint')
     /\ Immutable(rpcWindowId, rpcWindowId')
     /\ Immutable(serverUrl, serverUrl')
     /\ Immutable(windowId, windowId')]_vars

\* Both caches of the RpcClient are populated and a later call() has gone
\* straight to its POST with the cached values.
C12_Witness ==
  /\ ~Falsy(endpoint) /\ ~Falsy(rpcWindowId)
  /\ Len(rpcCalls) = 2
  /\ rpcCalls[1].awaits # NoPromise
  /\ rpcCalls[2].awaits = NoPromise
  /\ rpcCalls[2].url = endpoint
  /\ rpcCalls[2].request.id = rpcWindowId

\* C13: the ready flag never changes from true to false, under polling ticks,
\* the timeout and setReady() invocations alike; so it changes from false to
\* true at most once in an execution.
C13_ReadyMonotone == [][isReady(Gate) => ready']_vars

\* The flag was false at construction, polling set it, and a call that had
\* waited for it has completed on the host since.
C13_Witness ==
  /\ isReady(Gate) /\ bridge /\ readyPromise = "resolved"
  /\ \E i \in DOMAIN calls : calls[i].waited /\ calls[i].pc = "done"

\* Calls whose 'await pyloidReadyManager.whenReady()' has completed.
PastTheGate == {i \in DOMAIN calls : calls[i].waited /\ calls[i].pc # "awaitReady"}

\* C14: there is one completion signal; it settles at most once (a settled
\* signal keeps its state and its error), every waiter, whether it began to
\* wait before or after settlement, observes that one outcome (all go on to
\* their dispatch, or all fail with the signal's error), and the polling logic
\* is not executed again (no timer is ever armed after construction).
C14_OneSignalOneOutcome ==
  /\ [](\A i \in PastTheGate :
          /\ readyPromise # "pending"
          /\ calls[i].dispatched <=> readyPromise = "resolved"
          /\ readyPromise = "rejected" =>
               (calls[i].pc = "failed" /\ calls[i].error = readyError))
  /\ [][/\ readyPromise # "pending" =>
            (readyPromise' = readyPromise /\ readyError' = readyError)
        /\ timers' \subseteq timers]_vars

\* The signal was rejected by the timeout; one call awaited it while it was
\* pending, another after it had settled, and both failed with its error.
C14_Witness ==
  /\ TimedOut
  /\ \E i, j \in PastTheGate :
       /\ calls[i].signalAtAwait = "pending"
       /\ calls[j].signalAtAwait = "rejected"
       /\ calls[i].error = "timeout" /\ calls[j].error = "timeout"

\* Errors that report the missing global window object.
EnvironmentErrors == {"ssr", "nowindow"}

\* C15: without a global window object the completion signal is rejected
\* from construction on with the environment error, no polling interval or
\* timeout is armed, and every typed call and every callIPC has failed with an
\* environment error without reaching any bridge function.
C15_NoWindow ==
  ~hasWindow =>
    /\ readyPromise = "rejected" /\ readyError = "nowindow"
    /\ PollingCancelled
    /\ invocations = <<>>
    /\ \A i \in DOMAIN calls :
         /\ calls[i].pc = "failed"
         /\ calls[i].error \in EnvironmentErrors
         /\ ~calls[i].dispatched

\* No window; the application has even invoked setReady(); a typed call and a
\* dynamic call have both failed.
C15_Witness ==
  /\ ~hasWindow /\ ready
  /\ \E i, j \in DOMAIN calls :
       /\ calls[i].api = "base" /\ calls[i].error = "ssr"
       /\ calls[j].api = "ipc" /\ calls[j].error = "ssr"

\* s with one trailing / one leading slash removed when present.
TrimTrailingSlash(s) ==
  IF s # <<>> /\ s[Len(s)] = "/" THEN SubSeq(s, 1, Len(s) - 1) ELSE s

TrimLeadingSlash(s) == IF s # <<>> /\ s[1] = "/" THEN Tail(s) ELSE s

Absolute(p) == startsWith(p, Http) \/ startsWith(p, Https)

\* The join puts exactly one slash between what is left of base and of path.
OneSlashJunction(b, p) ==
  /\ (TrimTrailingSlash(b) # <<>> =>
        TrimTrailingSlash(b)[Len(TrimTrailingSlash(b))] # "/")
  /\ (TrimLeadingSlash(p) # <<>> => TrimLeadingSlash(p)[1] # "/")

\* The URL of request j obeys the join rule for base serverUrl.
JoinRule(j) ==
  LET p == fetchCalls[j].input
      r == fetchCalls[j].requestUrl
  IN /\ Absolute(p) => r = p
     /\ ~Absolute(p) =>
          r = TrimTrailingSlash(serverUrl) \o <<"/">> \o TrimLeadingSlash(p)
     /\ (serverUrl = <<"h", "t", "t", "p", ":", "/", "/", "x", "/">>
           /\ p = <<"/", "a", "/", "b">>)
          => r = <<"h", "t", "t", "p", ":", "/", "/", "x", "/", "a", "/", "b">>

\* C16 (as stated): an absolute input is the request URL verbatim; any other
\* input is joined to the base with one trailing slash of the base and one
\* leading slash of the input removed, and for every base and input the
\* junction then holds exactly one slash.
C16_JoinAlwaysOneSlash ==
  \A j \in DOMAIN fetchCalls :
    Requested(j) =>
      /\ JoinRule(j)
      /\ ~Absolute(fetchCalls[j].input) =>
           OneSlashJunction(serverUrl, fetchCalls[j].input)

\* C16 (amended): the same join rule; the junction holds exactly one slash
\* when the base does not end in two slashes and the input does not start with
\* two slashes (only one slash is trimmed on either side).
C16_JoinRule ==
  \A j \in DOMAIN fetchCalls :
    Requested(j) =>
      /\ JoinRule(j)
      /\ (/\ ~Absolute(fetchCalls[j].input)
          /\ TrimTrailingSlash(serverUrl) = TrimTrailingSlash(TrimTrailingSlash(serverUrl))
          /\ TrimLeadingSlash(fetchCalls[j].input)
               = TrimLeadingSlash(TrimLeadingSlash(fetchCalls[j].input)))
           => OneSlashJunction(serverUrl, fetchCalls[j].input)

\* 'http://x/' joined with '/a/b' was requested as 'http://x/a/b', and an
\* absolute input was requested verbatim.
C16_Witness ==
  /\ serverUrl = <<"h", "t", "t", "p", ":", "/", "/", "x", "/">>
  /\ \E j, k \in DOMAIN fetchCalls :
       /\ Requested(j) /\ fetchCalls[j].input = <<"/", "a", "/", "b">>
       /\ fetchCalls[j].requestUrl =
            <<"h", "t", "t", "p", ":", "/", "/", "x", "/", "a", "/", "b">>
       /\ Requested(k) /\ Absolute(fetchCalls[k].input)
       /\ fetchCalls[k].requestUrl = fetchCalls[k].input

\* The caller put a header of the session header's name into its options.
CallerSetsSessionHeader(j) == SessionHeader \in DOMAIN fetchCalls[j].options.headers

\* C17: a request whose caller supplied its own X-Pyloid-Window-Id header is
\* handed to the platform with that header holding the resolved session id,
\* not the caller's value.
C17_SessionHeaderOverrides ==
  \A j \in DOMAIN fetchCalls :
    (Requested(j) /\ CallerSetsSessionHeader(j)) =>
      /\ SessionHeader \in DOMAIN fetchCalls[j].requestOptions.headers
      /\ fetchCalls[j].requestOptions.headers[SessionHeader] = windowId
      /\ ~Falsy(windowId)
      /\ fetchCalls[j].requestOptions.headers[SessionHeader]
           # fetchCalls[j].options.headers[SessionHeader]

\* A fetch that waited for the session id and a later one that found it
\* cached both carried a caller-supplied session header and were requested.
C17_Witness ==
  /\ Len(fetchCalls) = 2
  /\ fetchCalls[1].awaitsWid # NoPromise
  /\ fetchCalls[2].awaitsWid = NoPromise
  /\ \A j \in 1..2 : Requested(j) /\ CallerSetsSessionHeader(j)

\* Calls that got a parsed response.
Answered == {j \in DOMAIN rpcCalls : rpcCalls[j].response.kind = "json"}

\* The errors call() throws when no parsed response arrives.
TransportFailures ==
  {rpcCalls[j].thrown : j \in {k \in DOMAIN rpcCalls :
                                 rpcCalls[k].response.kind \in {"network", "notjson"}}}

Mentions(message, piece) == \E n \in DOMAIN message : message[n] = piece

\* C18: a call whose parsed response carries an error object fails with an
\* error that shows the object's message and its code and that differs, in
\* class and in text, from every error of a transport failure; a call whose
\* parsed response carries no error object returns the response's result.
C18_RpcErrorOrResult ==
  \A j \in Answered :
    LET rc == rpcCalls[j]
    IN IF rc.response.error # <<>>
         THEN /\ rc.pc = "failed"
              /\ Mentions(rc.thrown.message, rc.response.error[1].message)
              /\ Mentions(rc.thrown.message, CodeText(rc.response.error[1].code))
              /\ \A t \in TransportFailures :
                   t.name # rc.thrown.name /\ t.message # rc.thrown.message
              /\ rc.thrown.name \notin {"TypeError", "SyntaxError"}
         ELSE /\ rc.pc = "done"
              /\ rc.result = rc.response.result
              /\ rc.thrown = NoThrow

\* One call was answered with an error object next to a result member, the
\* other failed in transport.
C18_Witness ==
  /\ \E j \in Answered :
       /\ rpcCalls[j].response.error # <<>>
       /\ rpcCalls[j].response.result = "pong"
       /\ rpcCalls[j].pc = "failed"
  /\ TransportFailures # {}

\* The body of the POST of call j has the protocol tag, the method and the
\* params of the call, an omitted params being sent as the empty object.
EnvelopeOf(j) ==
  LET rc == rpcCalls[j]
  IN /\ rc.request.jsonrpc = "2.0"
     /\ rc.request.method = rc.method
     /\ rc.request.params = (IF rc.params = "undefined" THEN "{}" ELSE rc.params)

\* A call issues at most one POST, and exactly one once it is past its
\* initialisation; the POST goes to the resolved endpoint.
OnePost(j) ==
  /\ rpcCalls[j].posts <= 1
  /\ Posted(j) <=> rpcCalls[j].posts = 1
  /\ rpcCalls[j].pc \in {"posting", "done"} => Posted(j)
  /\ Posted(j) => (rpcCalls[j].url = endpoint /\ ~Falsy(endpoint))

\* C19: every call(method, params) issues exactly one POST to the resolved
\* endpoint with jsonrpc '2.0', the method, the params ({} when omitted); a
\* call of 'ping' without params sends
\* {jsonrpc: '2.0', method: 'ping', params: {}, id: <session>}.
C19_EnvelopeWithSession ==
  \A j \in DOMAIN rpcCalls :
    /\ OnePost(j)
    /\ Posted(j) =>
         /\ EnvelopeOf(j)
         /\ (rpcCalls[j].method = "ping" /\ rpcCalls[j].params = "undefined") =>
              (/\ ~Falsy(rpcCalls[j].request.id)
               /\ rpcCalls[j].request =
                    [jsonrpc |-> "2.0", method |-> "ping", params |-> "{}",
                     id |-> rpcWindowId])

\* The value reached from root by the first n segments of parts.
RECURSIVE WalkTo(_, _, _)
WalkTo(root, parts, n) ==
  IF n = 0 THEN root ELSE GetProp(WalkTo(root, parts, n - 1), parts[n])

\* The namespace object and every intermediate segment of the path are objects.
IntermediatesAreObjects(root, parts) ==
  \A n \in 0..(Len(parts) - 1) : WalkTo(root, parts, n).t = "object"

\* C20: a callIPC(path, args) that has passed the gate invokes, when the
\* namespace and every intermediate segment are objects and the final segment
\* is a function, exactly that function once with exactly args; otherwise (an
\* intermediate segment that is not an object, a final segment that is not a
\* function) it fails and invokes nothing.
C20_WalkThenInvoke ==
  \A i \in DOMAIN calls :
    (calls[i].api = "ipc" /\ calls[i].dispatched) =>
      LET parts == Split(calls[i].path)
          root  == WindowIpc(calls[i].ipcAtDispatch)
          final == WalkTo(root, parts, Len(parts))
      IN IF IntermediatesAreObjects(root, parts) /\ final.t = "function"
           THEN /\ Cardinality(InvocationsOf(i)) = 1
                /\ \A k \in InvocationsOf(i) :
                     invocations[k].fn = final.id /\ invocations[k].arg = calls[i].arg
           ELSE /\ InvocationsOf(i) = {}
                /\ calls[i].pc = "failed"

\* The intermediate segments of the path whose value is not an object.
NonObjectSegments(root, parts) ==
  {n \in 1..(Len(parts) - 1) : WalkTo(root, parts, n).t # "object"}

\* C21: a callIPC that fails path resolution names the offending segment: the
\* dot-prefix of the path ending at the first intermediate segment whose value
\* is not an object, or, when every intermediate segment is an object and the
\* terminal one is not a function, the full path.
C21_ErrorNamesOffendingSegment ==
  \A i \in DOMAIN calls :
    (/\ calls[i].api = "ipc"
     /\ calls[i].pc = "failed"
     /\ calls[i].error \in {"notobject", "notfunction"}) =>
      LET parts == Split(calls[i].path)
          bad   == NonObjectSegments(WindowIpc(calls[i].ipcAtDispatch), parts)
      IN IF bad # {}
           THEN calls[i].errPath =
                  Prefix(parts, CHOOSE n \in bad : \A m \in bad : n <= m)
           ELSE calls[i].errPath = parts

\* C22: after unlisten(name), no later dispatch of that event invokes a
\* callback through a registration that listen(name, ...) made before the
\* unlisten, whatever listen calls came before (the same callback registered
\* twice, for one event or for two).
C22_UnlistenSilences ==
  \A k \in DOMAIN deliveries : ~deliveries[k].afterUnlisten

\* C23: after clearAllListeners() no closure installed by an earlier listen()
\* is attached to the document and the registry holds no callback.
C23_ClearAllDetaches ==
  lastOp = "clearAllListeners" =>
    /\ attached = <<>>
    /\ \A name \in EventNames : listeners[name] = <<>>

\* The deliveries dispatch d made through closure h.
DeliveriesOf(d, h) ==
  {k \in DOMAIN deliveries :
     deliveries[k].dispatch = d /\ deliveries[k].handler = h}

\* C26: a callback receives the JSON-decoded payload when event.detail is a
\* string that decodes, the raw string when decoding fails, and event.detail
\* itself when it is not a string; each attached registration's callback is
\* invoked exactly once per dispatch.
C26_PayloadDecoding ==
  /\ \A k \in DOMAIN deliveries :
       LET detail == dispatches[deliveries[k].dispatch].detail
           data   == deliveries[k].data
       IN /\ (detail.t = "string" /\ JsonParse(detail.text).ok)
               => data = JsonParse(detail.text).value
          /\ (detail.t = "string" /\ ~JsonParse(detail.text).ok) => data = detail
          /\ detail.t # "string" => data = detail
          /\ detail = Str(<<"4", "2">>)
               => data = [t |-> "number", text |-> <<"4", "2">>]
          /\ deliveries[k].callback = handlers[deliveries[k].handler].callback
  /\ \A d \in DOMAIN dispatches :
       \A n \in DOMAIN dispatches[d].targets :
         Cardinality(DeliveriesOf(d, dispatches[d].targets[n])) = 1

\* One callback has received a decoded number from one dispatch and the raw
\* text of a malformed payload from another.
C26_Witness ==
  \E k1, k2 \in DOMAIN deliveries :
    /\ deliveries[k1].callback = deliveries[k2].callback
    /\ deliveries[k1].data = [t |-> "number", text |-> <<"4", "2">>]
    /\ deliveries[k2].data = Str(<<"{", "x">>)

\* The fields of the caller's options other than headers reach the platform
\* request primitive unchanged.
OtherFieldsKept(j) ==
  /\ fetchCalls[j].requestOptions.method = fetchCalls[j].options.method
  /\ fetchCalls[j].requestOptions.body = fetchCalls[j].options.body
  /\ fetchCalls[j].requestOptions.signal = fetchCalls[j].options.signal

\* C24: every field of the caller's options other than headers is passed
\* unchanged, and every caller-supplied header that is not the session header
\* is in the outgoing request with its value, next to the session header.
C24_OptionsPassThrough ==
  \A j \in DOMAIN fetchCalls :
    Requested(j) =>
      /\ OtherFieldsKept(j)
      /\ SessionHeader \in DOMAIN fetchCalls[j].requestOptions.headers
      /\ \A n \in DOMAIN fetchCalls[j].options.headers \ {SessionHeader} :
           /\ n \in DOMAIN fetchCalls[j].requestOptions.headers
           /\ fetchCalls[j].requestOptions.headers[n]
                = fetchCalls[j].options.headers[n]

\* The step in which the platform request primitive fails for some fetch.
RequestFails ==
  \E j \in DOMAIN fetchCalls :
    fetchCalls[j].pc = "requesting" /\ fetchCalls'[j].pc = "failed"

\* C25: a fetch whose platform request fails throws the platform's error
\* itself (not a wrapper), has issued its request once (no retry), and the
\* failure leaves the serverUrl and windowId caches as they were.
C25_TransportErrorRethrown ==
  /\ [](\A j \in DOMAIN fetchCalls :
          /\ fetchCalls[j].requests <= 1
          /\ fetchCalls[j].platformError # NoThrow =>
               /\ fetchCalls[j].pc = "failed"
               /\ fetchCalls[j].thrown = fetchCalls[j].platformError
               /\ fetchCalls[j].requests = 1)
  /\ [][RequestFails =>
          /\ serverUrl' = serverUrl /\ windowId' = windowId
          /\ serverUrlPromise' = serverUrlPromise
          /\ windowIdPromise' = windowIdPromise]_vars

\* A request failed with an AbortError; the caches still hold the values a
\* second fetch then used for its own request.
C25_Witness ==
  /\ Len(fetchCalls) = 2
  /\ fetchCalls[1].platformError.name = "AbortError"
  /\ fetchCalls[1].thrown.name = "AbortError"
  /\ fetchCalls[2].awaitsUrl = NoPromise /\ fetchCalls[2].awaitsWid = NoPromise
  /\ Requested(2)
  /\ ~Falsy(serverUrl) /\ ~Falsy(windowId)

\* Calls, typed or dynamic, issued while isReady() was true.
IssuedWhenReady == {i \in DOMAIN calls : calls[i].readyAtIssue}

BridgeDetected == "interval" \in timers /\ bridge /\ ~ready /\ ready'

\* C28: when a polling tick detects the bridge both timers are cancelled, the
\* gate is ready and the completion signal resolved; a ready gate has no poll
\* or timeout timer armed, and a resolved signal is never rejected afterwards.
C28_DetectionCancelsTimers ==
  /\ [](isReady(Gate) => PollingCancelled)
  /\ [][/\ BridgeDetected => (PollingCancelled' /\ readyPromise' = "resolved")
        /\ readyPromise = "resolved" => readyPromise' = "resolved"]_vars

\* The gate was constructed before the bridge existed, the bridge was injected
\* and detected, and a call that had waited on the pending signal was
\* dispatched to the bridge.
C28_Witness ==
  /\ hasWindow /\ bridge /\ ready /\ readyPromise = "resolved"
  /\ PollingCancelled
  /\ \E i \in DOMAIN calls :
       /\ calls[i].signalAtAwait = "pending"
       /\ calls[i].dispatched /\ calls[i].bridgeAtDispatch

\* C29: a gate constructed with the bridge already present is ready with its
\* completion signal resolved from the end of construction on, and no polling
\* interval or timeout is armed then or at any later time.
C29_BridgeAtConstruction ==
  (hasWindow /\ bridge) =>
    [](isReady(Gate) /\ whenReady(Gate) = "resolved" /\ PollingCancelled)

\* Every call of a run was issued on a gate that was ready, never waited, and
\* was answered by the bridge; setReady ran exactly once, in the constructor.
C29_Witness ==
  /\ hasWindow /\ bridge /\ ready /\ readyLogs = 1
  /\ Len(calls) = MaxCalls
  /\ \A i \in DOMAIN calls :
       calls[i].readyAtIssue /\ calls[i].bridgeAtDispatch /\ calls[i].pc = "done"

\* C30: for an RpcClient constructed with an endpoint, no call() starts an
\* initialiser, invokes a host-bridge getter or waits on the readiness gate,
\* and every request is posted, without suspending first, to the endpoint
\* that was supplied, which never changes.
C30_SuppliedEndpointShortCircuits ==
  /\ [](/\ endpoint \in SuppliedEndpoints
        /\ inits = <<>> /\ calls = <<>> /\ waiters = <<>> /\ invocations = <<>>
        /\ \A j \in DOMAIN rpcCalls :
             /\ rpcCalls[j].awaits = NoPromise
             /\ rpcCalls[j].pc # "awaitInit"
             /\ rpcCalls[j].posts = 1
             /\ rpcCalls[j].url = endpoint)
  /\ [][endpoint' = endpoint]_vars

\* A call completed against the supplied endpoint in an environment whose gate
\* never became ready.
C30_Witness ==
  /\ endpointPromise = ResolvedPromise
  /\ ~isReady(Gate) /\ whenReady(Gate) = "rejected"
  /\ Len(rpcCalls) = MaxRpcCalls
  /\ \E j \in DOMAIN rpcCalls :
       /\ rpcCalls[j].pc = "done" /\ rpcCalls[j].result = "pong"
       /\ rpcCalls[j].url = endpoint /\ rpcCalls[j].request.id = NullStr

ReachedCallIPC == {k \in DOMAIN accesses : accesses[k].outcome = "callIPC"}

\* A chain of at least minLen and at most maxLen segments, called with
\* arguments, makes one callIPC of its own with the joined path and the
\* arguments; reads make none.
OneCallPerChain(minLen, maxLen) ==
  /\ \A k \in DOMAIN accesses :
       LET a == accesses[k]
       IN /\ (a.applied /\ Len(a.chain) >= minLen /\ Len(a.chain) <= maxLen) =>
               /\ a.outcome = "callIPC"
               /\ a.call \in DOMAIN calls
               /\ calls[a.call].api = "ipc"
               /\ calls[a.call].path = JoinDots(a.chain)
               /\ calls[a.call].arg = a.arg
          /\ ~a.applied => a.call = 0
  /\ \A k1, k2 \in ReachedCallIPC :
       accesses[k1].call = accesses[k2].call => k1 = k2
  /\ Len(calls) = Cardinality(ReachedCallIPC)

ReadsTouchNoBridge ==
  (Len(accesses') > Len(accesses) /\ ~accesses'[Len(accesses')].applied)
    => UNCHANGED <<calls, waiters, microtasks, invocations>>

ResolutionFailed(value, promise) ==
  promise # NoPromise /\ Settled(promise) /\ Falsy(value)

UrlOnlyFailed == ResolutionFailed(serverUrl, serverUrlPromise) /\ ~Falsy(windowId)

WidOnlyFailed == ~Falsy(serverUrl) /\ ResolutionFailed(windowId, windowIdPromise)

InitsOf(kind) == {k \in DOMAIN inits : inits[k].kind = kind}

\* A cached value is never replaced.
CachesKept ==
  /\ ~Falsy(serverUrl) => serverUrl' = serverUrl
  /\ ~Falsy(windowId) => windowId' = windowId

\* C32: the two guards of fetch() are separate single-flight initialisations
\* begun in the same step; when exactly one resolution has failed no fetch()
\* reaches the platform request and every fetch() that has run on fails with
\* the failed guard's error, while the value the other guard cached is kept
\* and a fetch() that finds it cached awaits nothing for it; no getter is
\* invoked twice.
C32_OneGuardFails ==
  /\ [](/\ (UrlOnlyFailed \/ WidOnlyFailed) =>
             \A j \in DOMAIN fetchCalls :
               /\ fetchCalls[j].requests = 0 /\ ~Requested(j)
               /\ fetchCalls[j].pc \in {"awaitInit", "failed"}
               /\ fetchCalls[j].pc = "failed" =>
                    fetchCalls[j].error \in
                      (IF UrlOnlyFailed THEN {"initUrl", "noUrl"}
                       ELSE {"initWid", "noWid"})
        /\ \A j \in DOMAIN fetchCalls :
             /\ fetchCalls[j].awaitsUrl # NoPromise =>
                  /\ fetchCalls[j].awaitsUrl = serverUrlPromise
                  /\ fetchCalls[j].awaitsUrl # fetchCalls[j].awaitsWid
             /\ fetchCalls[j].awaitsWid # NoPromise =>
                  fetchCalls[j].awaitsWid = windowIdPromise
        /\ Cardinality(InitsOf("url")) <= 1 /\ Cardinality(InitsOf("wid")) <= 1
        /\ Cardinality(GetterInvocations("url", <<"getServerUrl">>)) <= 1
        /\ Cardinality(GetterInvocations("wid", <<"getWindowId">>)) <= 1)
  /\ [][/\ CachesKept
        /\ (Len(fetchCalls') > Len(fetchCalls) /\ ~Falsy(serverUrl)) =>
              /\ fetchCalls'[Len(fetchCalls')].awaitsUrl = NoPromise
              /\ InitsOf("url")' = InitsOf("url")
        /\ (Len(fetchCalls') > Len(fetchCalls) /\ ~Falsy(windowId)) =>
              /\ fetchCalls'[Len(fetchCalls')].awaitsWid = NoPromise
              /\ InitsOf("wid")' = InitsOf("wid")]_vars

\* The window id could not be resolved while the server URL was: a first
\* fetch() awaited both guards and failed, a later one found the URL cached,
\* awaited only the window id and failed too, with one invocation per getter.
C32_Witness ==
  /\ WidOnlyFailed
  /\ Len(fetchCalls) = 2
  /\ fetchCalls[1].awaitsUrl # NoPromise /\ fetchCalls[1].awaitsWid # NoPromise
  /\ fetchCalls[2].awaitsUrl = NoPromise /\ fetchCalls[2].awaitsWid # NoPromise
  /\ \A j \in DOMAIN fetchCalls :
       fetchCalls[j].pc = "failed" /\ fetchCalls[j].requests = 0
  /\ Cardinality(GetterInvocations("url", <<"getServerUrl">>)) = 1
  /\ Cardinality(GetterInvocations("wid", <<"getWindowId">>)) = 1

\* C33: in every reachable state isReady() is true exactly when the signal
\* returned by whenReady() is resolved, and false whenever it is rejected.
C33_FlagAgreesWithSignal ==
  /\ isReady(Gate) <=> whenReady(Gate) = "resolved"
  /\ whenReady(Gate) = "rejected" => ~isReady(Gate)

\* The timeout callback runs in this step.
TimeoutRuns == "timeout" \in timers /\ ~ready /\ "timeout" \notin timers' /\ ~ready'

\* C34: once the bridge is present while the timeout has not yet run, the gate
\* eventually becomes ready with whenReady() resolved, and the timeout
\* callback does not reject the signal while the bridge is present.
C34_BridgeBeforeTimeout ==
  /\ (bridge /\ "timeout" \in timers) ~>
       (isReady(Gate) /\ whenReady(Gate) = "resolved")
  /\ [][(bridge /\ TimeoutRuns) => readyPromise' # "rejected"]_vars

\* Calls that wait on the gate.
Waiting(i) == i \in DOMAIN calls /\ calls[i].pc = "awaitReady"

\* A call has gone through ensureReady: its function ran on the bridge side or
\* the call failed (environment error, rejected signal, error thrown by fn).
DispatchedOrFailed(i) ==
  /\ i \in DOMAIN calls
  /\ calls[i].dispatched \/ calls[i].pc = "failed"

\* C35: in every environment the completion signal eventually settles, and
\* every call that has been issued is eventually dispatched or fails: no call
\* waits on the gate forever.
C35_NoCallWaitsForever ==
  /\ <>(whenReady(Gate) # "pending")
  /\ \A i \in 1..MaxCalls :
       (i \in DOMAIN calls) ~> (DispatchedOrFailed(i) /\ ~Waiting(i))

\* A call that waited on a gate nobody made ready was failed by the timeout,
\* and one that waited while the bridge appeared was dispatched.
C35_Witness ==
  /\ Len(calls) = MaxCalls
  /\ \A i \in DOMAIN calls : calls[i].waited /\ ~Waiting(i)
  /\ \/ /\ TimedOut
        /\ \A i \in DOMAIN calls : calls[i].pc = "failed" /\ ~calls[i].dispatched
     \/ /\ bridge /\ readyPromise = "resolved"
        /\ \A i \in DOMAIN calls : calls[i].dispatched

\* Invocations of bridge functions made for typed calls of the application.
TypedInvocations ==
  {n \in DOMAIN invocations :
     invocations[n].api = "base" /\ calls[invocations[n].call].owner = User}

\* C36: bridge functions are invoked in the order their typed calls were
\* issued: of two invocations the earlier one belongs to the call issued
\* earlier, however the gate became ready.
C36_InvocationsInIssueOrder ==
  \A m, n \in TypedInvocations :
    m < n => invocations[m].call < invocations[n].call

\* The step in which fetch j calls globalThis.fetch.
InvokesPlatform(j) ==
  /\ j \in DOMAIN fetchCalls'
  /\ fetchCalls'[j].requests > (IF j \in DOMAIN fetchCalls
                                  THEN fetchCalls[j].requests ELSE 0)

InitErrors == {"initUrl", "noUrl", "initWid", "noWid"}

\* C37: whenever fetch() calls the platform request primitive both caches hold
\* a value (isServerUrlReady() and isWindowIdReady() are true, then and ever
\* after), also for an absolute input whose request URL is the input itself;
\* a fetch() of an absolute URL whose serverUrl resolution has failed makes no
\* request and fails with an initialisation error.
C37_RequestOnlyWhenBothCached ==
  /\ [](\A j \in DOMAIN fetchCalls :
          /\ (fetchCalls[j].requests > 0 \/ Requested(j)) =>
               /\ isServerUrlReady /\ isWindowIdReady
               /\ ~Falsy(getServerUrl) /\ ~Falsy(getWindowId)
          /\ (Absolute(fetchCalls[j].input) /\ Requested(j)) =>
               fetchCalls[j].requestUrl = fetchCalls[j].input
          /\ (Absolute(fetchCalls[j].input)
               /\ ResolutionFailed(serverUrl, serverUrlPromise)) =>
               /\ fetchCalls[j].requests = 0
               /\ fetchCalls[j].pc = "awaitInit" \/
                    (fetchCalls[j].pc = "failed"
                     /\ fetchCalls[j].error \in InitErrors))
  /\ [][\A j \in 1..MaxFetchCalls :
          InvokesPlatform(j) =>
            /\ isServerUrlReady /\ isWindowIdReady
            /\ isServerUrlReady' /\ isWindowIdReady']_vars

\* A fetch() of an absolute URL waited for both resolutions and was then
\* requested at its own URL.
C37_Witness ==
  \E j \in DOMAIN fetchCalls :
    /\ Absolute(fetchCalls[j].input)
    /\ fetchCalls[j].awaitsUrl # NoPromise /\ fetchCalls[j].awaitsWid # NoPromise
    /\ fetchCalls[j].requests = 1
    /\ fetchCalls[j].requestUrl = fetchCalls[j].input
    /\ isServerUrlReady /\ isWindowIdReady

ResolvedInits(kind) == {k \in InitsOf(kind) : inits[k].pc = "resolved"}

\* C38: getServerUrl() and getWindowId() return null exactly while no
\* resolution of their cache has completed; a fetch() issued while
\* isServerUrlReady() and isWindowIdReady() are both true starts no
\* initialiser, invokes no host getter and does not fail with a 'could not be
\* initialized' error.
C38_AccessorsAgreeWithFetch ==
  /\ [](/\ getServerUrl = NullStr <=> ResolvedInits("url") = {}
        /\ getWindowId = NullStr <=> ResolvedInits("wid") = {}
        /\ \A j \in DOMAIN fetchCalls :
             fetchCalls[j].readyAtIssue =>
               fetchCalls[j].error \notin {"noUrl", "noWid"})
  /\ [][(Len(fetchCalls') > Len(fetchCalls)
         /\ isServerUrlReady /\ isWindowIdReady) =>
           (inits' = inits /\ invocations' = invocations)]_vars

====
